---- MODULE Spec2Model ----
(***************************************************************************)
(* Model of the retrieval-augmented report pipeline:                       *)
(*   src/vector_db.py      initialize_chromadb, query_vectordb             *)
(*   src/rag_retrieval.py  retrieve_relevant_context,                      *)
(*                         format_retrieval_results, create_context_string,*)
(*                         retrieve_sales_data / _marketing_ / _combined_  *)
(*   src/agent.py          generate_report_with_autogen_multiagent,        *)
(*                         generate_report_with_rag, generate_custom_report*)
(*                                                                         *)
(* Python values are tagged records [kind, val]: a str is a sequence of    *)
(* text tokens, a list a sequence of values, None and a missing dict key   *)
(* have their own kinds, and a raised exception is kind "error".           *)
(* Floats are fixed-point integers in hundredths (0.09 is 9, 1 is 100).    *)
(***************************************************************************)
EXTENDS Integers, Sequences, FiniteSets, TLC

VARIABLES
    pc,             \* position of the request in generate_report_with_autogen_multiagent
    query,          \* argument query
    report_type,    \* argument report_type
    n_results,      \* argument n_results
    collection,     \* the vector store: whether the collection exists, and its documents
    searchLog,      \* the calls of retrieve_relevant_context, in order
    queryLog,       \* the query_params of the collection.query calls, in order
    raw,            \* results of retrieve_relevant_context
    formatted,      \* result of format_retrieval_results
    context,        \* result of create_context_string
    genLog,         \* the generation calls issued (agent, prompt), in order
    chat,           \* user_proxy's chat_messages, per agent
    turns,          \* turns taken in the chat in progress
    analyst_findings,
    final_report,   \* the value outcomes
    err,            \* the exception that left the function, or "none"
    fault,          \* the exception the last external call raised, or "none"
    trace,          \* the steps of the request, in the order they happened
    requests,       \* requests started so far
    call,           \* the entry point of the request, and whether only the query was passed
    prompt_with_context, \* argument of generate_custom_report
    storeFaults,    \* the exceptions the vector store raised in this request, caught or not
    llm_cache,      \* the responses the generation client has stored (agent, prompt, reply)
    repeated,       \* whether the request has the arguments of the request before it
    frames,         \* the local variables of each of the calls running concurrently
    report_call,    \* the named report function that made the request, with its arguments
    sched_pc,       \* position of the scheduler program
    report_files,   \* local report_files of the daily batch
    chart_files,    \* local chart_files of the daily batch
    success,        \* local success of the daily batch
    steps,          \* what the daily batch has done in this run, in order
    deliveries,     \* the delivery calls of this run, with their arguments, in order
    raised_at,      \* the step of this run an exception was raised in, or "none"
    outcomes,       \* what the runs of the daily batch outcomes, in order
    today,          \* scheduled instants that have passed since the scheduler started
    next_run,       \* the scheduled instant the job is next due at
    timestamp       \* local timestamp of the daily batch: the day the run began on

vars == <<pc, query, report_type, n_results, collection, searchLog, queryLog, raw,
          formatted, context, genLog, chat, turns, analyst_findings, final_report, err,
          fault, trace, requests, call, prompt_with_context, storeFaults, llm_cache, repeated, frames, report_call,
          sched_pc, report_files, chart_files, success, steps, deliveries, raised_at,
          outcomes, today, next_run, timestamp>>

\* the variables of a report request
pipeVars == <<pc, query, report_type, n_results, collection, searchLog, queryLog, raw,
              formatted, context, genLog, chat, turns, analyst_findings, final_report, err,
              fault, trace, requests, call, prompt_with_context, storeFaults, llm_cache,
              repeated, frames, report_call>>

\* the variables of the scheduler program
schedVars == <<sched_pc, report_files, chart_files, success, steps, deliveries, raised_at,
               outcomes, today, next_run, timestamp>>

---------------------------------------------------------------------------
(* Bounds of the model *)

\* longest hit list of a raw result
MaxHits == 2
\* report requests made one after the other
MaxRequests == 2
\* report requests running at the same time
MaxConcurrent == 2
\* scheduled instants that pass while the scheduler runs
MaxDays == 2

---------------------------------------------------------------------------
(* Python values *)

Absent == [kind |-> "absent", val |-> <<>>]
PyNone == [kind |-> "None", val |-> <<>>]
PyList(s) == [kind |-> "list", val |-> s]
PyStr(t) == [kind |-> "str", val |-> t]
PyErr(e) == [kind |-> "error", val |-> <<e>>]
PyBool(b) == [kind |-> "bool", val |-> <<b>>]

\* a results dict of collection.query, by its three keys
PyDict(docs, metas, dists) ==
    [kind |-> "dict", documents |-> docs, metadatas |-> metas, distances |-> dists]
NoResults == [kind |-> "None", documents |-> Absent, metadatas |-> Absent, distances |-> Absent]

\* bool(x) of a list, None or a missing key's .get() value
Truthy(x) == x.kind = "list" /\ Len(x.val) > 0

\* bool(results): None and the empty dict are falsy
TruthyDict(r) ==
    /\ r.kind = "dict"
    /\ \E k \in {"documents", "metadatas", "distances"} : r[k].kind # "absent"

\* d.get(k): None when the key is missing
DictGet(m, k) == IF k \in DOMAIN m THEN m[k] ELSE "None"
\* d.get(k, default)
DictGetDefault(m, k, default) == IF k \in DOMAIN m THEN m[k] ELSE default

\* s is a contiguous part of t
IsSubSeq(s, t) ==
    \E i \in 0..(Len(t) - Len(s)) : SubSeq(t, i + 1, i + Len(s)) = s

\* sep.join(parts) on token sequences
RECURSIVE Join(_, _)
Join(sep, parts) ==
    IF parts = <<>> THEN <<>>
    ELSE IF Len(parts) = 1 THEN Head(parts)
    ELSE Head(parts) \o <<sep>> \o Join(sep, Tail(parts))

Min(a, b) == IF a <= b THEN a ELSE b
Min3(a, b, c) == Min(a, Min(b, c))
Max3(a, b, c) == 0 - Min3(0 - a, 0 - b, 0 - c)

---------------------------------------------------------------------------
(* src/rag_retrieval.py: format_retrieval_results *)

Sentinel == PyStr(<<"No relevant information found.">>)

\* the float 1, in hundredths
One == 100

RelevanceClamped(distance) == IF distance > One THEN 0 ELSE One - distance
\* "relevance_score": 1 - distance
Relevance(distance) == One - distance

\* "rank": i+1, for enumerate's i (from 0)
Rank(i) == i + 1

context_item(i, doc, metadata, distance) ==
    [rank |-> Rank(i),
     relevance_score |-> Relevance(distance),
     type |-> DictGetDefault(metadata, "type", "unknown"),
     content |-> doc,
     metadata |-> metadata]

\* results[key][0]: the value, or the exception the subscripts raise
Batch0(results, key) ==
    LET v == results[key] IN
    IF v.kind = "absent" THEN PyErr("KeyError")
    ELSE IF v.kind = "None" THEN PyErr("TypeError")
    ELSE IF Len(v.val) = 0 THEN PyErr("IndexError")
    ELSE PyList(v.val[1])

ZipItemsSorted(documents, metadatas, distances) ==
    LET n == Min3(Len(documents), Len(metadatas), Len(distances))
        \* positions by ascending distance, ties by position
        Before(a, b) == distances[a] < distances[b] \/ (distances[a] = distances[b] /\ a < b)
        Pos(i) == CHOOSE a \in 1..n : Cardinality({b \in 1..n : Before(b, a)}) = i - 1
    IN [i \in 1..n |-> context_item(i - 1, documents[Pos(i)], metadatas[Pos(i)], distances[Pos(i)])]

ZipItemsLongest(documents, metadatas, distances) ==
    LET n == Max3(Len(documents), Len(metadatas), Len(distances))
    IN [i \in 1..n |->
           context_item(i - 1,
                        IF i <= Len(documents) THEN documents[i] ELSE "None",
                        IF i <= Len(metadatas) THEN metadatas[i] ELSE <<>>,
                        IF i <= Len(distances) THEN distances[i] ELSE One)]

\* the loop over enumerate(zip(documents, metadatas, distances))
ZipItems(documents, metadatas, distances) ==
    [i \in 1..Min3(Len(documents), Len(metadatas), Len(distances)) |->
        context_item(i - 1, documents[i], metadatas[i], distances[i])]

format_retrieval_results(results) ==
    IF ~TruthyDict(results) \/ ~Truthy(results.documents)
    THEN Sentinel
    ELSE LET documents == Batch0(results, "documents")
             metadatas == Batch0(results, "metadatas")
             distances == Batch0(results, "distances")
         IN IF metadatas.kind = "error" THEN metadatas
            ELSE IF distances.kind = "error" THEN distances
            ELSE PyList(ZipItems(documents.val, metadatas.val, distances.val))

---------------------------------------------------------------------------
(* src/rag_retrieval.py: create_context_string *)

\* str.upper() on the record types that occur
Upper(t) ==
    CASE t = "sales" -> "SALES"
      [] t = "marketing" -> "MARKETING"
      [] t = "unknown" -> "UNKNOWN"
      [] t = "other" -> "OTHER"
      [] OTHER -> t

Digit(d) == ToString(d)

Fmt1(x) ==
    LET a == IF x < 0 THEN 0 - x ELSE x IN
    (IF x < 0 THEN "-" ELSE "") \o ToString(a \div One) \o "." \o Digit((a % One) \div 10)

\* f"{x:.2f}" of a value in hundredths
Fmt2(x) ==
    LET a == IF x < 0 THEN 0 - x ELSE x IN
    (IF x < 0 THEN "-" ELSE "") \o ToString(a \div One) \o "."
        \o Digit((a % One) \div 10) \o Digit(a % 10)

MetaFieldEmpty(metadata, key) == DictGetDefault(metadata, key, "")
\* {metadata.get(key)} inside the f-string: a missing key prints None
MetaField(metadata, key) == DictGet(metadata, key)

HeaderPart == <<"Retrieved relevant information:", "\n">>

RankLine(item) ==
    <<"\n", ToString(item.rank), ". [", Upper(item.type), "] (Relevance: ",
      Fmt2(item.relevance_score), ")">>

ContentLine(item) == <<"   ", item.content>>

SalesLine(metadata) ==
    <<"   Product: ", MetaField(metadata, "product"),
      ", Revenue: $", MetaField(metadata, "revenue"),
      ", Region: ", MetaField(metadata, "region"),
      ", Quarter: ", MetaField(metadata, "quarter")>>

MarketingLine(metadata) ==
    <<"   Campaign: ", MetaField(metadata, "campaign_name"),
      ", Channel: ", MetaField(metadata, "channel"),
      ", Budget: $", MetaField(metadata, "budget"),
      ", Conversions: ", MetaField(metadata, "conversions")>>

\* the parts one item appends to context_parts
ItemParts(item) ==
    <<RankLine(item), ContentLine(item)>> \o
    (IF item.type = "sales" THEN <<SalesLine(item.metadata)>>
     ELSE IF item.type = "marketing" THEN <<MarketingLine(item.metadata)>>
     ELSE <<>>)

RECURSIVE ContextParts(_)
ContextParts(items) ==
    IF items = <<>> THEN <<>> ELSE ItemParts(Head(items)) \o ContextParts(Tail(items))

create_context_string_wrapping(formatted_context) ==
    IF formatted_context.kind = "str"
    THEN PyStr(Join("\n", <<HeaderPart, formatted_context.val>>))
    ELSE PyStr(Join("\n", <<HeaderPart>> \o ContextParts(formatted_context.val)))

create_context_string(formatted_context) ==
    IF formatted_context.kind = "str"
    THEN formatted_context
    ELSE PyStr(Join("\n", <<HeaderPart>> \o ContextParts(formatted_context.val)))

---------------------------------------------------------------------------
(* The data the model draws its inputs from *)

SalesFields == {"product", "revenue", "region", "quarter"}
MarketingFields == {"campaign_name", "channel", "budget", "conversions"}

\* the values load_data_to_vectordb stores (numbers as str)
FieldValue ==
    [product |-> "Widget A", revenue |-> "500000", region |-> "NA", quarter |-> "Q3",
     campaign_name |-> "Spring Blast", channel |-> "Email", budget |-> "10000",
     conversions |-> "230"]

\* a metadata dict with a type and the fields S
MetaOf(t, S) == [k \in S \cup {"type"} |-> IF k = "type" THEN t ELSE FieldValue[k]]
\* a metadata dict without the type key
MetaNoType(S) == [k \in S |-> FieldValue[k]]

SalesMeta == MetaOf("sales", SalesFields)
MarketingMeta == MetaOf("marketing", MarketingFields)

\* every subset of the expected fields present, and records of no known type
AllMetas ==
    {MetaOf("sales", S) : S \in SUBSET SalesFields}
    \cup {MetaOf("marketing", S) : S \in SUBSET MarketingFields}
    \cup {MetaOf("other", {}), MetaNoType({}), MetaNoType({"product"})}

Docs == {"Q3 revenue up 12%", "Email campaign engaged"}
\* distances in hundredths: 0.09, 1.00 and 1.50
Distances == {9, 100, 150}

Hit(doc, meta, dist) == [doc |-> doc, meta |-> meta, dist |-> dist]
\* hits with complete metadata, and hits with any metadata
BaseHits == {Hit(d, m, x) : d \in Docs, m \in {SalesMeta, MarketingMeta}, x \in Distances}
SparseHits == {Hit("Q3 revenue up 12%", m, x) : m \in AllMetas, x \in Distances}

\* the batch shape of collection.query: each key holds a list of one list
BatchOf(hs) ==
    PyDict(PyList(<<[i \in 1..Len(hs) |-> hs[i].doc]>>),
           PyList(<<[i \in 1..Len(hs) |-> hs[i].meta]>>),
           PyList(<<[i \in 1..Len(hs) |-> hs[i].dist]>>))

\* results that hold no hit, in the shapes a query interface can hand back
ZeroHitResults ==
    {NoResults,
     PyDict(Absent, Absent, Absent),
     PyDict(PyNone, PyNone, PyNone),
     PyDict(PyList(<<>>), PyList(<<>>), PyList(<<>>)),
     BatchOf(<<>>)}

\* results whose three lists do not match: a key missing, or unequal lengths
MalformedResults ==
    LET h1 == Hit("Q3 revenue up 12%", SalesMeta, 9)
        h2 == Hit("Email campaign engaged", MarketingMeta, 150)
        b == BatchOf(<<h1, h2>>)
        b1 == BatchOf(<<h1>>)
    IN {[b EXCEPT !.documents = Absent],
        [b EXCEPT !.metadatas = Absent], [b EXCEPT !.distances = Absent],
        [b EXCEPT !.metadatas = PyNone], [b EXCEPT !.distances = PyList(<<>>)],
        [b EXCEPT !.documents = b1.documents], [b EXCEPT !.metadatas = b1.metadatas],
        [b EXCEPT !.distances = b1.distances]}

\* MaxHits hits, sales and marketing by turns
WideHits ==
    [i \in 1..MaxHits |->
        IF i % 2 = 1 THEN Hit("Q3 revenue up 12%", SalesMeta, 9)
        ELSE Hit("Email campaign engaged", MarketingMeta, 150)]

\* batches whose three lists have the lengths ld, lm and lx, not all the same
UnequalResults ==
    LET b == BatchOf(WideHits)
        Cut(l, n) == PyList(<<SubSeq(l.val[1], 1, n)>>)
    IN {PyDict(Cut(b.documents, ld), Cut(b.metadatas, lm), Cut(b.distances, lx)) :
           <<ld, lm, lx>> \in {t \in (0..MaxHits) \X (0..MaxHits) \X (0..MaxHits) :
                                  ~(t[1] = t[2] /\ t[2] = t[3])}}

\* the hits of a well-formed batch, as the list they came from
HitsOf(r) ==
    [i \in 1..Len(r.documents.val[1]) |->
        Hit(r.documents.val[1][i], r.metadatas.val[1][i], r.distances.val[1][i])]

IsBatch(r) ==
    /\ r.kind = "dict"
    /\ \A k \in {"documents", "metadatas", "distances"} : r[k].kind = "list" /\ Len(r[k].val) = 1
    /\ Len(r.metadatas.val[1]) = Len(r.documents.val[1])
    /\ Len(r.distances.val[1]) = Len(r.documents.val[1])

\* r holds no hit
IsZeroHit(r) ==
    \/ r.kind = "None"
    \/ \A k \in {"documents", "metadatas", "distances"} : ~Truthy(r[k])
    \/ (IsBatch(r) /\ Len(r.documents.val[1]) = 0)

---------------------------------------------------------------------------
(* src/vector_db.py, src/rag_retrieval.py: the search *)

\* the documents of a loaded collection, nearest first
StorePool ==
    <<Hit("Q3 revenue up 12%", SalesMeta, 9),
      Hit("Email campaign engaged", MarketingMeta, 100),
      Hit("Q2 revenue flat", SalesMeta, 150)>>

\* filter_dict of retrieve_relevant_context: None unless filter_type is given
filter_dict(filter_type) ==
    IF filter_type # "None" /\ filter_type # "" THEN [type |-> filter_type] ELSE <<>>

\* query_params of query_vectordb: "where" only with a filter
query_params(query_text, n, fd) ==
    IF fd # <<>>
    THEN [query_texts |-> <<query_text>>, n_results |-> n, where |-> fd]
    ELSE [query_texts |-> <<query_text>>, n_results |-> n]

\* the states of the store: no collection, or one holding some of the documents
NoCollection == [exists |-> FALSE, docs |-> {}]
Collections ==
    {NoCollection} \cup {[exists |-> TRUE, docs |-> D] : D \in SUBSET (1..Len(StorePool))}

\* client.get_collection, and client.create_collection when that raises
get_or_create(coll) == IF coll.exists THEN coll ELSE [exists |-> TRUE, docs |-> {}]

\* what collection.query may return: n_results of the stored documents that pass
\* the filter, or all of them when they are fewer, nearest first; which of them,
\* the embedding of the query decides
QueryResults(coll, params) ==
    LET ok == {i \in coll.docs :
                  "where" \in DOMAIN params
                      => StorePool[i].meta["type"] = params.where["type"]}
        k == Min(params.n_results, Cardinality(ok))
        Pick(I) == [j \in 1..Cardinality(I) |->
                       StorePool[CHOOSE i \in I : Cardinality({h \in I : h < i}) = j - 1]]
    IN {BatchOf(Pick(I)) : I \in {J \in SUBSET ok : Cardinality(J) = k}}

filter_type_of_swapped(rt) ==
    IF rt = "sales" THEN "marketing" ELSE IF rt = "marketing" THEN "sales" ELSE "None"

filter_type_of_verbatim(rt) == IF rt = "combined" THEN "None" ELSE rt

\* the filter_type the retrieve_*_data function chosen for report_type passes on
filter_type_of(rt) ==
    IF rt = "sales" THEN "sales" ELSE IF rt = "marketing" THEN "marketing" ELSE "None"

\* exceptions of the generation service: the timeout of llm_config, and any other
GenErrors == {"Timeout", "ServiceError"}

---------------------------------------------------------------------------
(* src/agent.py: prompts and chats *)

analysis_prompt(q, ctx) ==
    <<"Based on the following data retrieved from our database, please analyze and identify key insights:\n\nQuery: ",
      q, "\n\n">> \o ctx.val \o
    <<"\n\nPlease provide:\n1. Key metrics and numbers\n2. Notable trends\n3. Top performers\n4. Areas of concern\n5. Data-driven insights">>

report_prompt_first_line(q, findings) ==
    <<"Based on the data analyst's findings, create a comprehensive professional report.\n\nOriginal Query: ",
      q, "\n\nData Analyst's Findings:\n">> \o SubSeq(findings.val, 1, Min(1, Len(findings.val))) \o
    <<"\n\nCreate a detailed report with these sections:\n1. Executive Summary\n2. Key Findings  \n3. Detailed Analysis\n4. Insights and Trends\n5. Recommendations\n\nMake it professional, clear, and actionable.">>

report_prompt(q, findings) ==
    <<"Based on the data analyst's findings, create a comprehensive professional report.\n\nOriginal Query: ",
      q, "\n\nData Analyst's Findings:\n">> \o findings.val \o
    <<"\n\nCreate a detailed report with these sections:\n1. Executive Summary\n2. Key Findings  \n3. Detailed Analysis\n4. Insights and Trends\n5. Recommendations\n\nMake it professional, clear, and actionable.">>

MaxTurnsTwo == 1 + 1
\* max_turns of both initiate_chat calls
MaxTurns == 1

\* default_auto_reply of the user proxy
default_auto_reply == <<>>

EmptyChat == [data_analyst |-> <<>>, report_writer |-> <<>>]

Message(name, content) == [name |-> name, content |-> content]

last_message_sent(agent) == PyStr(chat[agent][1].content)

\* user_proxy.last_message(agent)["content"]
last_message(agent) == PyStr(chat[agent][Len(chat[agent])].content)

\* the replies the generation service may give
AnalystOutputs ==
    {<<>>, <<"Revenue grew 12%.">>, <<"Top product: Widget A.", "\n", "Concern: churn.">>}
\* the analyst's replies to concurrent calls
ConcAnalystOutputs == {<<"Revenue grew 12%.">>, <<"Top product: Widget A.", "\n", "Concern: churn.">>}
WriterOutputs == {<<"# Report">>, <<"# Report", "\n", "1. Executive Summary">>}

Queries == {"Analyze sales performance", "Analyze marketing campaign performance"}
ReportTypes == {"sales", "marketing", "combined", "other"}
NResults == {2, 5, 8}

---------------------------------------------------------------------------
(* The request, step by step *)

\* no named report function
NoReport == [function |-> "none", args |-> <<>>]

\* no call made yet
NoCall == [entry |-> "none", query_only |-> FALSE]

\* the scheduler program has not been started
SchedOff ==
    /\ sched_pc = "off"
    /\ report_files = <<>>
    /\ chart_files = <<>>
    /\ success = PyNone
    /\ steps = <<>>
    /\ deliveries = <<>>
    /\ raised_at = "none"
    /\ outcomes = <<>>
    /\ today = 0
    /\ next_run = 0
    /\ timestamp = 0

Init ==
    /\ pc = "idle"
    /\ query = ""
    /\ report_type = ""
    /\ n_results = 0
    /\ collection \in Collections
    /\ requests = 0
    /\ call = NoCall
    /\ prompt_with_context = <<>>
    /\ storeFaults = <<>>
    /\ llm_cache = {}
    /\ repeated = FALSE
    /\ report_call = NoReport
    /\ SchedOff
    /\ frames = <<>>
    /\ raw = NoResults
    /\ formatted = PyNone
    /\ context = PyNone
    /\ searchLog = <<>>
    /\ queryLog = <<>>
    /\ genLog = <<>>
    /\ chat = EmptyChat
    /\ turns = 0
    /\ analyst_findings = PyNone
    /\ final_report = PyNone
    /\ err = "none"
    /\ fault = "none"
    /\ trace = <<>>

\* the defaults of the parameters report_type and n_results
DefaultReportType == "combined"
DefaultNResults == 8
DefaultNResultsRag == 5

EntryPoints == {"generate_report_with_autogen_multiagent", "generate_report_with_rag"}

\* n_results of a call of entry point e that passes no n_results: the wrapper
\* hands its own default on to generate_report_with_autogen_multiagent
default_n_results(e) ==
    IF e = "generate_report_with_rag" THEN DefaultNResultsRag ELSE DefaultNResults

\* the body of generate_report_with_autogen_multiagent is entered with (q, rt, n),
\* by a call of entry point e that named report function rc made, if any
EnterBody(e, q, rt, n, only, rc) ==
    /\ pc \in {"idle", "done", "raised"}
    /\ requests' = requests + 1
    /\ call' = [entry |-> e, query_only |-> only]
    /\ query' = q
    /\ report_type' = rt
    /\ n_results' = n
    /\ pc' = "retrieve"
    /\ raw' = NoResults
    /\ formatted' = PyNone
    /\ context' = PyNone
    /\ searchLog' = <<>>
    /\ queryLog' = <<>>
    /\ genLog' = <<>>
    /\ chat' = EmptyChat
    /\ turns' = 0
    /\ analyst_findings' = PyNone
    /\ final_report' = PyNone
    /\ err' = "none"
    /\ fault' = "none"
    /\ trace' = <<>>
    /\ storeFaults' = <<>>
    /\ repeated' = (requests > 0 /\ call.entry = e /\ <<q, rt, n>> = <<query, report_type, n_results>>)
    /\ report_call' = rc
    /\ UNCHANGED <<collection, prompt_with_context, llm_cache, frames>>

\* the same, as one of a bounded number of requests made outside the scheduler
EnterFrom(e, q, rt, n, only, rc) ==
    /\ requests < MaxRequests
    /\ EnterBody(e, q, rt, n, only, rc)
    /\ UNCHANGED schedVars

\* a call of entry point e by any other caller
Enter(e, q, rt, n, only) == EnterFrom(e, q, rt, n, only, NoReport)

\* a caller invokes generate_report_with_autogen_multiagent(q, rt, n)
Request(q, rt, n) ==
    Enter("generate_report_with_autogen_multiagent", q, rt, n, FALSE)

\* a caller invokes generate_report_with_rag(q, rt, n), which returns
\* generate_report_with_autogen_multiagent(q, rt, n)
RequestWithRag(q, rt, n) ==
    Enter("generate_report_with_rag", q, rt, n, FALSE)

\* a caller invokes entry point e with the query alone
RequestQueryOnly(e, q) ==
    Enter(e, q, DefaultReportType, default_n_results(e), TRUE)

RaiseWrapped(e) ==
    /\ pc' = "raised"
    /\ err' = "ReportGenerationError"

\* the function is left by an exception
Raise(e) ==
    /\ pc' = "raised"
    /\ err' = e

\* retrieve_<report_type>_data calls retrieve_relevant_context(query, n_results,
\* filter_type): initialize_chromadb, then query_vectordb
Retrieve ==
    /\ pc = "retrieve"
    /\ trace' = Append(trace, "search")
    /\ searchLog' = Append(searchLog, [query |-> query, n_results |-> n_results,
                                       filter_type |-> filter_type_of(report_type)])
    /\ \/ \* PersistentClient cannot open the store
          /\ Raise("IndexUnavailable")
          /\ fault' = "IndexUnavailable"
          /\ storeFaults' = Append(storeFaults, "IndexUnavailable")
          /\ UNCHANGED <<collection, queryLog, raw>>
       \/ \* get_collection fails on a collection that exists; the bare except goes
          \* on to create_collection, which raises as the name is taken
          /\ collection.exists
          /\ Raise("CollectionExists")
          /\ fault' = "CollectionExists"
          /\ storeFaults' = storeFaults \o <<"CollectionUnavailable", "CollectionExists">>
          /\ UNCHANGED <<collection, queryLog, raw>>
       \/ \* get_collection, or create_collection when that raises as there is no
          \* collection; then collection.query
          LET coll == get_or_create(collection)
              params == query_params(query, n_results, filter_dict(filter_type_of(report_type)))
              caught == IF collection.exists THEN <<>> ELSE <<"CollectionNotFound">>
          IN /\ collection' = coll
             /\ queryLog' = Append(queryLog, params)
             /\ \/ /\ Raise("QueryError")
                   /\ fault' = "QueryError"
                   /\ storeFaults' = storeFaults \o caught \o <<"QueryError">>
                   /\ UNCHANGED raw
                \/ /\ raw' \in QueryResults(coll, params)
                   /\ pc' = "normalize"
                   /\ storeFaults' = storeFaults \o caught
                   /\ UNCHANGED <<err, fault>>
    /\ UNCHANGED <<query, report_type, n_results, formatted, context, genLog, chat, turns,
                   analyst_findings, final_report, requests, call, prompt_with_context,
                   llm_cache, repeated, frames, report_call, schedVars>>

NormalizeRequery ==
    /\ pc = "normalize"
    /\ trace' = Append(trace, "normalize")
    /\ LET f == format_retrieval_results(raw)
       IN IF f.kind = "error"
          THEN Raise(f.val[1]) /\ UNCHANGED formatted
          ELSE /\ formatted' = f
               /\ pc' = IF f.kind = "str" \/ f.val = <<>> THEN "retrieve" ELSE "compose"
               /\ UNCHANGED err
    /\ UNCHANGED <<query, report_type, n_results, collection, searchLog, queryLog, raw, context,
                   genLog, chat, turns, analyst_findings, final_report, fault, requests, call, prompt_with_context, storeFaults, llm_cache, repeated, frames, report_call, schedVars>>

\* formatted = format_retrieval_results(results)
Normalize ==
    /\ pc = "normalize"
    /\ trace' = Append(trace, "normalize")
    /\ LET f == format_retrieval_results(raw)
       IN IF f.kind = "error"
          THEN Raise(f.val[1]) /\ UNCHANGED formatted
          ELSE formatted' = f /\ pc' = "compose" /\ UNCHANGED err
    /\ UNCHANGED <<query, report_type, n_results, collection, searchLog, queryLog, raw, context,
                   genLog, chat, turns, analyst_findings, final_report, fault, requests, call, prompt_with_context, storeFaults, llm_cache, repeated, frames, report_call, schedVars>>

\* context = create_context_string(formatted); then the agents are created
Compose ==
    /\ pc = "compose"
    /\ trace' = Append(trace, "compose")
    /\ context' = create_context_string(formatted)
    /\ chat' = EmptyChat
    /\ turns' = 0
    /\ pc' = "analyst"
    /\ UNCHANGED <<query, report_type, n_results, collection, searchLog, queryLog, raw, formatted,
                   genLog, analyst_findings, final_report, err, fault, requests, call, prompt_with_context, storeFaults, llm_cache, repeated, frames, report_call, schedVars>>

cache_seed_default == [kind |-> "int", val |-> <<41>>]
\* "cache_seed" of llm_config: None, the client stores and reuses no response
cache_seed == PyNone

\* the responses stored for the prompt msg to agent, when the client uses its cache
Cached(agent, msg) ==
    IF cache_seed = PyNone THEN {}
    ELSE {c \in llm_cache : c.agent = agent /\ c.prompt = msg}

SendCarryover(agent, message, event, next) ==
    /\ turns < MaxTurns
    /\ LET msg == IF turns = 0 THEN message ELSE default_auto_reply
           before == IF agent = "report_writer" THEN chat["data_analyst"] ELSE <<>>
       IN /\ chat' = [chat EXCEPT ![agent] = Append(@ \o before, Message("user_proxy", msg))]
          /\ genLog' = Append(genLog, [agent |-> agent, prompt |-> msg])
    /\ trace' = Append(trace, event)
    /\ pc' = next
    /\ UNCHANGED <<query, report_type, n_results, collection, searchLog, queryLog, raw, formatted,
                   context, turns, analyst_findings, final_report, err, fault, requests, call,
                   prompt_with_context, storeFaults, llm_cache, repeated, frames, report_call, schedVars>>

\* one turn of user_proxy.initiate_chat(agent, message, max_turns): the message is
\* sent and the agent asks the generation service for its reply, unless the
\* client holds a stored response to it
Send(agent, message, event, next) ==
    /\ turns < MaxTurns
    /\ LET msg == IF turns = 0 THEN message ELSE default_auto_reply
       IN /\ chat' = [chat EXCEPT ![agent] = Append(@, Message("user_proxy", msg))]
          /\ genLog' = IF Cached(agent, msg) = {}
                       THEN Append(genLog, [agent |-> agent, prompt |-> msg])
                       ELSE genLog
    /\ trace' = Append(trace, event)
    /\ pc' = next
    /\ UNCHANGED <<query, report_type, n_results, collection, searchLog, queryLog, raw, formatted,
                   context, turns, analyst_findings, final_report, err, fault, requests, call,
                   prompt_with_context, storeFaults, llm_cache, repeated, frames, report_call, schedVars>>

ReplyRetry(agent, outputs, event, next) ==
    /\ \/ \E out \in outputs :
            /\ chat' = [chat EXCEPT ![agent] = Append(@, Message(agent, out))]
            /\ turns' = turns + 1
            /\ trace' = Append(trace, event)
            /\ UNCHANGED fault
       \/ \E e \in GenErrors :
            /\ fault' = e
            /\ UNCHANGED <<chat, turns, trace>>
    /\ pc' = next
    /\ UNCHANGED <<query, report_type, n_results, collection, searchLog, queryLog, raw, formatted,
                   context, genLog, analyst_findings, final_report, err, requests, call,
                   prompt_with_context, storeFaults, llm_cache, repeated, frames, report_call, schedVars>>

\* the generation service answers, or the call fails and the exception leaves the function
Reply(agent, outputs, event, next) ==
    LET msg == chat[agent][Len(chat[agent])].content
        stored == {c.reply : c \in Cached(agent, msg)}
    IN
    /\ \/ \E out \in (IF stored = {} THEN outputs ELSE stored) :
            /\ chat' = [chat EXCEPT ![agent] = Append(@, Message(agent, out))]
            /\ llm_cache' = IF cache_seed = PyNone THEN llm_cache
                            ELSE llm_cache \cup {[agent |-> agent, prompt |-> msg, reply |-> out]}
            /\ turns' = turns + 1
            /\ trace' = Append(trace, event)
            /\ pc' = next
            /\ UNCHANGED <<err, fault>>
       \/ \E e \in GenErrors :
            /\ stored = {}
            /\ Raise(e)
            /\ fault' = e
            /\ UNCHANGED <<chat, turns, trace, llm_cache>>
    /\ UNCHANGED <<query, report_type, n_results, collection, searchLog, queryLog, raw, formatted,
                   context, genLog, analyst_findings, final_report, requests, call,
                   prompt_with_context, storeFaults, repeated, frames, report_call, schedVars>>

AnalystSend ==
    /\ pc = "analyst"
    /\ Send("data_analyst", analysis_prompt(query, context), "analyst_call", "analyst_wait")

AnalystReply ==
    /\ pc = "analyst_wait"
    /\ Reply("data_analyst", AnalystOutputs, "analyst_reply", "analyst")

\* analyst_findings = user_proxy.last_message(analyst)["content"]
AnalystDone ==
    /\ pc = "analyst"
    /\ turns >= MaxTurns
    /\ analyst_findings' = last_message("data_analyst")
    /\ turns' = 0
    /\ pc' = "writer"
    /\ UNCHANGED <<query, report_type, n_results, collection, searchLog, queryLog, raw, formatted,
                   context, genLog, chat, final_report, err, fault, trace, requests, call, prompt_with_context, storeFaults, llm_cache, repeated, frames, report_call, schedVars>>

WriterSend ==
    /\ pc = "writer"
    /\ Send("report_writer", report_prompt(query, analyst_findings), "writer_call", "writer_wait")

WriterReply ==
    /\ pc = "writer_wait"
    /\ Reply("report_writer", WriterOutputs, "writer_reply", "writer")

\* final_report = user_proxy.last_message(writer)["content"]; return final_report
WriterDone ==
    /\ pc = "writer"
    /\ turns >= MaxTurns
    /\ final_report' = last_message("report_writer")
    /\ pc' = "done"
    /\ UNCHANGED <<query, report_type, n_results, collection, searchLog, queryLog, raw, formatted,
                   context, genLog, chat, turns, analyst_findings, err, fault, trace, requests, call, prompt_with_context, storeFaults, llm_cache, repeated, frames, report_call, schedVars>>

Next ==
    \/ \E q \in Queries, rt \in ReportTypes, n \in NResults : Request(q, rt, n)
    \/ \E q \in Queries, rt \in ReportTypes, n \in NResults : RequestWithRag(q, rt, n)
    \/ \E e \in EntryPoints, q \in Queries : RequestQueryOnly(e, q)
    \/ Retrieve
    \/ Normalize
    \/ Compose
    \/ AnalystSend
    \/ AnalystReply
    \/ AnalystDone
    \/ WriterSend
    \/ WriterReply
    \/ WriterDone

Spec == Init /\ [][Next]_vars

---------------------------------------------------------------------------
(* src/report_generator.py: the named report functions *)

ReportFunctions ==
    {"generate_sales_performance_report", "generate_marketing_campaign_report",
     "generate_quarterly_summary_report", "generate_product_analysis_report",
     "generate_regional_analysis_report", "generate_custom_analysis_report"}

\* the arguments a caller may pass: None (the default), the empty str, a value
OptionalArg(v) == {PyNone, PyStr(<<>>), PyStr(<<v>>)}

\* the argument lists of the calls of function f
ArgsOf(f) ==
    CASE f = "generate_sales_performance_report" ->
            OptionalArg("North America") \X OptionalArg("Q1 2024")
      [] f = "generate_marketing_campaign_report" ->
            OptionalArg("Email") \X OptionalArg("Q1 2024")
      [] f = "generate_quarterly_summary_report" -> {<<PyStr(<<"Q3 2024">>)>>, <<PyNone>>}
      [] f = "generate_product_analysis_report" -> {<<PyStr(<<"Widget A">>)>>}
      [] f = "generate_regional_analysis_report" -> {<<PyStr(<<"North America">>)>>}
      [] f = "generate_custom_analysis_report" ->
            {<<PyStr(<<"Which region leads in marketing?">>)>>}

\* bool(x) of a str or None argument
ArgTruthy(x) == x.kind = "str" /\ x.val # <<>>

\* {x} inside an f-string
ArgText(x) == IF x.kind = "None" THEN "None" ELSE IF x.val = <<>> THEN "" ELSE x.val[1]

\* " ".join(query_part)
RECURSIVE JoinWords(_)
JoinWords(parts) ==
    IF parts = <<>> THEN ""
    ELSE IF Len(parts) = 1 THEN parts[1]
    ELSE parts[1] \o " " \o JoinWords(Tail(parts))

\* the query function f builds from its arguments
report_query(f, args) ==
    CASE f = "generate_sales_performance_report" ->
            JoinWords(<<"Analyze sales performance">>
                      \o (IF ArgTruthy(args[1]) THEN <<"in " \o ArgText(args[1])>> ELSE <<>>)
                      \o (IF ArgTruthy(args[2]) THEN <<"for " \o ArgText(args[2])>> ELSE <<>>))
      [] f = "generate_marketing_campaign_report" ->
            JoinWords(<<"Analyze marketing campaign performance">>
                      \o (IF ArgTruthy(args[1])
                          THEN <<"for " \o ArgText(args[1]) \o " channel">> ELSE <<>>)
                      \o (IF ArgTruthy(args[2]) THEN <<"in " \o ArgText(args[2])>> ELSE <<>>))
      [] f = "generate_quarterly_summary_report" ->
            "Provide a comprehensive summary of sales and marketing performance for "
                \o ArgText(args[1])
      [] f = "generate_product_analysis_report" ->
            "Analyze the performance and marketing of " \o ArgText(args[1])
      [] f = "generate_regional_analysis_report" ->
            "Analyze sales and marketing performance in " \o ArgText(args[1])
      [] f = "generate_custom_analysis_report" -> ArgText(args[1])

report_kind_by_argument(f, args) ==
    CASE f = "generate_sales_performance_report" ->
            [report_type |-> IF ArgTruthy(args[1]) THEN "combined" ELSE "sales", n_results |-> 8]
      [] f = "generate_marketing_campaign_report" ->
            [report_type |-> "marketing", n_results |-> 8]
      [] f = "generate_quarterly_summary_report" ->
            [report_type |-> "combined", n_results |-> 10]
      [] OTHER -> [report_type |-> "combined", n_results |-> 8]

\* the report_type and n_results function f passes to generate_report_with_rag
report_kind(f, args) ==
    CASE f = "generate_sales_performance_report" -> [report_type |-> "sales", n_results |-> 8]
      [] f = "generate_marketing_campaign_report" ->
            [report_type |-> "marketing", n_results |-> 8]
      [] f = "generate_quarterly_summary_report" ->
            [report_type |-> "combined", n_results |-> 10]
      [] OTHER -> [report_type |-> "combined", n_results |-> 8]

\* a caller invokes named report function f with args: the function builds its
\* query and calls generate_report_with_rag(query, report_type=..., n_results=...)
NamedCall(f, args) ==
    LET k == report_kind(f, args)
    IN EnterBody("generate_report_with_rag", report_query(f, args), k.report_type, k.n_results,
                 FALSE, [function |-> f, args |-> args])

\* the same, as one of a bounded number of requests made outside the scheduler
NamedReport(f, args) ==
    /\ requests < MaxRequests
    /\ NamedCall(f, args)
    /\ UNCHANGED schedVars

NextReports ==
    \/ \E f \in ReportFunctions : \E args \in ArgsOf(f) : NamedReport(f, args)
    \/ Retrieve
    \/ Normalize
    \/ Compose
    \/ AnalystSend
    \/ AnalystReply
    \/ AnalystDone
    \/ WriterSend
    \/ WriterReply
    \/ WriterDone

SpecReports == Init /\ [][NextReports]_vars

---------------------------------------------------------------------------
(* src/scheduler.py: the daily batch and the scheduling loop *)

\* the reports of the daily batch, in the order of the code
BatchReports == <<"sales", "marketing", "summary">>

\* the named report function the batch calls for report w, with its arguments
BatchFunction(w) ==
    CASE w = "sales" -> [function |-> "generate_sales_performance_report",
                         args |-> <<PyNone, PyNone>>]
      [] w = "marketing" -> [function |-> "generate_marketing_campaign_report",
                             args |-> <<PyNone, PyNone>>]
      [] w = "summary" -> [function |-> "generate_quarterly_summary_report",
                           args |-> <<PyStr(<<"Q3 2024">>)>>]

\* f"daily_..._{timestamp}.txt"
BatchFile(w, ts) ==
    CASE w = "sales" -> <<"daily_sales_report_", ts, ".txt">>
      [] w = "marketing" -> <<"daily_marketing_report_", ts, ".txt">>
      [] w = "summary" -> <<"daily_executive_summary_", ts, ".txt">>

\* where the batch goes on after report w is saved
AfterReport(w) ==
    CASE w = "sales" -> "marketing"
      [] w = "marketing" -> "summary"
      [] w = "summary" -> "charts"

\* the list generate_all_charts returns
AllCharts ==
    <<"sales_by_region.png", "quarterly_performance.png", "product_performance.png",
      "marketing_roi.png", "channel_performance.png">>

\* run_pending has started the job, or run_now has called it: the locals are set
BatchBegin ==
    /\ report_files' = <<>>
    /\ timestamp' = today
    /\ chart_files' = <<>>
    /\ success' = PyNone
    /\ steps' = <<>>
    /\ deliveries' = <<>>
    /\ raised_at' = "none"
    /\ sched_pc' = "sales"
    /\ UNCHANGED outcomes

\* python scheduler.py now: run_now calls the batch once
RunNow ==
    /\ sched_pc = "off"
    /\ BatchBegin
    /\ UNCHANGED <<today, next_run>>
    /\ UNCHANGED pipeVars

\* start_scheduler: schedule.every().day.at(SCHEDULE_TIME).do(...) makes the job
\* due at the next scheduled instant, and the loop is entered
StartScheduler ==
    /\ sched_pc = "off"
    /\ next_run' = today + 1
    /\ sched_pc' = "poll"
    /\ UNCHANGED <<report_files, chart_files, success, steps, deliveries, raised_at, outcomes,
                   today, timestamp>>
    /\ UNCHANGED pipeVars

\* schedule.run_pending(): the job is run when it is due
RunPending ==
    /\ sched_pc = "poll"
    /\ IF today >= next_run
       THEN /\ BatchBegin
            /\ UNCHANGED <<today, next_run>>
       ELSE /\ sched_pc' = "sleep"
            /\ UNCHANGED <<report_files, chart_files, success, steps, deliveries, raised_at,
                           outcomes, today, next_run, timestamp>>
    /\ UNCHANGED pipeVars

\* time.sleep(60) ends before the next scheduled instant
Sleep ==
    /\ sched_pc = "sleep"
    /\ sched_pc' = "poll"
    /\ UNCHANGED <<report_files, chart_files, success, steps, deliveries, raised_at, outcomes,
                   today, next_run, timestamp>>
    /\ UNCHANGED pipeVars

\* time.sleep(60) ends after the next scheduled instant (a run takes less than a day)
SleepToScheduledTime ==
    /\ sched_pc = "sleep"
    /\ today < MaxDays
    /\ today' = today + 1
    /\ sched_pc' = "poll"
    /\ UNCHANGED <<report_files, chart_files, success, steps, deliveries, raised_at, outcomes,
                   next_run, timestamp>>
    /\ UNCHANGED pipeVars

\* sales_report = generate_sales_performance_report(), and the like: the call is made
BatchGenerate(w) ==
    /\ sched_pc = w
    /\ NamedCall(BatchFunction(w).function, BatchFunction(w).args)
    /\ steps' = Append(steps, "generate_" \o w)
    /\ sched_pc' = "wait_" \o w
    /\ UNCHANGED <<report_files, chart_files, success, deliveries, raised_at, outcomes, today,
                   next_run, timestamp>>

\* the call outcomes the report: save_report_to_file(report, file) writes it or
\* raises, and the file saved is appended to report_files
BatchSave(w) ==
    /\ sched_pc = "wait_" \o w
    /\ pc = "done"
    /\ steps' = Append(steps, "save_" \o w)
    /\ \/ /\ report_files' = Append(report_files, BatchFile(w, timestamp))
          /\ sched_pc' = AfterReport(w)
          /\ UNCHANGED raised_at
       \/ /\ raised_at' = "save_" \o w
          /\ sched_pc' = "except"
          /\ UNCHANGED report_files
    /\ UNCHANGED <<chart_files, success, deliveries, outcomes, today, next_run, timestamp>>
    /\ UNCHANGED pipeVars

\* the call raised, and the batch goes on with what follows it
BatchGenerateSkipped(w) ==
    /\ sched_pc = "wait_" \o w
    /\ pc = "raised"
    /\ raised_at' = "generate_" \o w
    /\ sched_pc' = AfterReport(w)
    /\ UNCHANGED <<report_files, chart_files, success, steps, deliveries, outcomes, today,
                   next_run, timestamp>>
    /\ UNCHANGED pipeVars

\* the call raised: control passes to the except clause of the batch
BatchGenerateRaised(w) ==
    /\ sched_pc = "wait_" \o w
    /\ pc = "raised"
    /\ raised_at' = "generate_" \o w
    /\ sched_pc' = "except"
    /\ UNCHANGED <<report_files, chart_files, success, steps, deliveries, outcomes, today,
                   next_run, timestamp>>
    /\ UNCHANGED pipeVars

\* chart_files = generate_all_charts()
BatchCharts ==
    /\ sched_pc = "charts"
    /\ steps' = Append(steps, "charts")
    /\ \/ /\ chart_files' = AllCharts
          /\ sched_pc' = "email"
          /\ UNCHANGED raised_at
       \/ /\ raised_at' = "charts"
          /\ sched_pc' = "except"
          /\ UNCHANGED chart_files
    /\ UNCHANGED <<report_files, success, deliveries, outcomes, today, next_run, timestamp>>
    /\ UNCHANGED pipeVars

\* what a delivery call was given
Delivery(channel) ==
    [channel |-> channel, report_files |-> report_files, chart_files |-> chart_files]

\* success = send_html_email_with_charts(report_files, chart_files): the function
\* catches what its body raises and returns False, and returns True otherwise
BatchEmail ==
    /\ sched_pc = "email"
    /\ steps' = Append(steps, "email")
    /\ deliveries' = Append(deliveries, Delivery("email"))
    /\ \E sent \in BOOLEAN : success' = PyBool(sent)
    /\ sched_pc' = "telegram"
    /\ UNCHANGED <<report_files, chart_files, raised_at, outcomes, today, next_run, timestamp>>
    /\ UNCHANGED pipeVars

\* the Telegram delivery lets its exception reach the try of the batch
BatchTelegramUncaught ==
    /\ sched_pc = "telegram"
    /\ steps' = Append(steps, "telegram")
    /\ deliveries' = Append(deliveries, Delivery("telegram"))
    /\ \/ /\ sched_pc' = "finish"
          /\ UNCHANGED raised_at
       \/ /\ raised_at' = "telegram"
          /\ sched_pc' = "except"
    /\ UNCHANGED <<report_files, chart_files, success, outcomes, today, next_run, timestamp>>
    /\ UNCHANGED pipeVars

\* try: send_to_telegram(report_files, chart_files)  except Exception: print
BatchTelegram ==
    /\ sched_pc = "telegram"
    /\ steps' = Append(steps, "telegram")
    /\ deliveries' = Append(deliveries, Delivery("telegram"))
    /\ \/ UNCHANGED raised_at
       \/ raised_at' = "telegram"
    /\ sched_pc' = "finish"
    /\ UNCHANGED <<report_files, chart_files, success, outcomes, today, next_run, timestamp>>
    /\ UNCHANGED pipeVars

\* the batch hands v back: to run_now, which ends, or to the job of the schedule,
\* which sets the next run a day later and hands control back to the loop
BatchReturn(v) ==
    /\ outcomes' = Append(outcomes, v)
    /\ IF next_run = 0
       THEN /\ sched_pc' = "exited"
            /\ UNCHANGED next_run
       ELSE /\ sched_pc' = "sleep"
            /\ next_run' = today + 1
    /\ UNCHANGED <<report_files, chart_files, success, steps, deliveries, raised_at, today,
                   timestamp>>
    /\ UNCHANGED pipeVars

\* the exception leaves the batch: it leaves run_pending and start_scheduler too
BatchCatchReraise ==
    /\ sched_pc = "except"
    /\ sched_pc' = "crashed"
    /\ UNCHANGED <<report_files, chart_files, success, steps, deliveries, raised_at, outcomes,
                   today, next_run, timestamp>>
    /\ UNCHANGED pipeVars

\* except Exception as e: print; return False
BatchCatch ==
    /\ sched_pc = "except"
    /\ BatchReturn("False")

\* return True
BatchFinish ==
    /\ sched_pc = "finish"
    /\ BatchReturn("True")

\* the positions of the scheduling loop and of a batch it runs
LoopRunning == next_run > 0 /\ sched_pc \notin {"off", "stopped", "crashed"}

\* Ctrl+C while the scheduler runs: KeyboardInterrupt is no Exception, so neither
\* except clause of the batch catches it; except KeyboardInterrupt ends the loop
Interrupt ==
    /\ LoopRunning
    /\ sched_pc' = "stopped"
    /\ UNCHANGED <<report_files, chart_files, success, steps, deliveries, raised_at, outcomes,
                   today, next_run, timestamp>>
    /\ UNCHANGED pipeVars

\* the steps of the program other than the user's interrupt
SchedStep ==
    \/ RunNow
    \/ StartScheduler
    \/ RunPending
    \/ Sleep
    \/ SleepToScheduledTime
    \/ \E i \in 1..Len(BatchReports) : BatchGenerate(BatchReports[i])
    \/ \E i \in 1..Len(BatchReports) : BatchSave(BatchReports[i])
    \/ \E i \in 1..Len(BatchReports) : BatchGenerateRaised(BatchReports[i])
    \/ BatchCharts
    \/ BatchEmail
    \/ BatchTelegram
    \/ BatchCatch
    \/ BatchFinish
    \/ Retrieve
    \/ Normalize
    \/ Compose
    \/ AnalystSend
    \/ AnalystReply
    \/ AnalystDone
    \/ WriterSend
    \/ WriterReply
    \/ WriterDone

NextSched == SchedStep \/ Interrupt

InitSched == Init

SpecSched == InitSched /\ [][NextSched]_vars

\* every call returns or raises, and time passes
SpecSchedFair ==
    /\ SpecSched
    /\ WF_vars(SchedStep)
    /\ SF_vars(SleepToScheduledTime)

---------------------------------------------------------------------------
(* src/agent.py: generate_custom_report *)

\* the prompts a caller may have built
CustomPrompts ==
    {<<"Summarize Q3.">>,
     <<"Question: which region leads?", "\n", "Data: North 500000, South 300000">>,
     <<"Analyze sales performance">>}

\* user_proxy.last_message()["content"]: without an agent, the last message of
\* the only conversation the proxy holds
last_message_only ==
    LET convs == {a \in DOMAIN chat : chat[a] # <<>>}
    IN IF Cardinality(convs) = 1
       THEN LET a == CHOOSE c \in convs : TRUE IN PyStr(chat[a][Len(chat[a])].content)
       ELSE IF convs = {} THEN PyErr("TypeError") ELSE PyErr("ValueError")

\* a caller invokes generate_custom_report(p): the analyst and the proxy are created
CustomRequest(p) ==
    /\ pc \in {"idle", "done", "raised"}
    /\ requests < MaxRequests
    /\ requests' = requests + 1
    /\ call' = [entry |-> "generate_custom_report", query_only |-> FALSE]
    /\ prompt_with_context' = p
    /\ query' = ""
    /\ report_type' = ""
    /\ n_results' = 0
    /\ pc' = "custom"
    /\ raw' = NoResults
    /\ formatted' = PyNone
    /\ context' = PyNone
    /\ searchLog' = <<>>
    /\ queryLog' = <<>>
    /\ genLog' = <<>>
    /\ chat' = EmptyChat
    /\ turns' = 0
    /\ analyst_findings' = PyNone
    /\ final_report' = PyNone
    /\ err' = "none"
    /\ fault' = "none"
    /\ trace' = <<>>
    /\ storeFaults' = <<>>
    /\ repeated' = (call.entry = "generate_custom_report" /\ p = prompt_with_context)
    /\ report_call' = NoReport
    /\ UNCHANGED <<collection, llm_cache, frames, schedVars>>

CustomSendWrapped ==
    /\ pc = "custom"
    /\ Send("data_analyst", analysis_prompt("", PyStr(prompt_with_context)), "analyst_call",
            "custom_wait")

\* user_proxy.initiate_chat(analyst, message=prompt_with_context, max_turns=1)
CustomSend ==
    /\ pc = "custom"
    /\ Send("data_analyst", prompt_with_context, "analyst_call", "custom_wait")

CustomReply ==
    /\ pc = "custom_wait"
    /\ Reply("data_analyst", AnalystOutputs, "analyst_reply", "custom")

\* return user_proxy.last_message()["content"]
CustomDone ==
    /\ pc = "custom"
    /\ turns >= MaxTurns
    /\ LET m == last_message_only
       IN IF m.kind = "error"
          THEN Raise(m.val[1]) /\ UNCHANGED final_report
          ELSE final_report' = m /\ pc' = "done" /\ UNCHANGED err
    /\ UNCHANGED <<query, report_type, n_results, collection, searchLog, queryLog, raw, formatted,
                   context, genLog, chat, turns, analyst_findings, fault, trace, requests, call,
                   prompt_with_context, storeFaults, llm_cache, repeated, frames, report_call, schedVars>>

NextCustom ==
    \/ \E p \in CustomPrompts : CustomRequest(p)
    \/ CustomSend
    \/ CustomReply
    \/ CustomDone

SpecCustom == Init /\ [][NextCustom]_vars

---------------------------------------------------------------------------
(* Calls of generate_report_with_autogen_multiagent running concurrently:     *)
(* each call has its own local variables, agents and proxy; the store is      *)
(* shared                                                                     *)

Callers == 1..MaxConcurrent

\* the arguments the concurrent callers pass
ConcArgs ==
    {[query |-> "Analyze sales performance", report_type |-> "sales", n_results |-> 8],
     [query |-> "Analyze marketing campaign performance", report_type |-> "marketing",
      n_results |-> 8]}

\* the store the concurrent calls start on: without collection, or loaded
ConcStores == {NoCollection, [exists |-> TRUE, docs |-> 1..Len(StorePool)]}

\* the locals of a call that has not started
Frame0 ==
    [pc |-> "idle", query |-> "", report_type |-> "", n_results |-> 0, queryLog |-> <<>>,
     raw |-> NoResults, formatted |-> PyNone, context |-> PyNone, chat |-> EmptyChat,
     analyst_findings |-> PyNone, final_report |-> PyNone, err |-> "none"]

\* the variables of the one-call-at-a-time model, which concurrent calls do not use
seqVars ==
    <<pc, query, report_type, n_results, searchLog, queryLog, raw, formatted, context, genLog,
      chat, turns, analyst_findings, final_report, err, fault, trace, requests, call,
      prompt_with_context, storeFaults, llm_cache, repeated, report_call, schedVars>>

InitConc ==
    /\ pc = "idle"
    /\ query = ""
    /\ report_type = ""
    /\ n_results = 0
    /\ collection \in ConcStores
    /\ requests = 0
    /\ call = NoCall
    /\ prompt_with_context = <<>>
    /\ storeFaults = <<>>
    /\ llm_cache = {}
    /\ repeated = FALSE
    /\ report_call = NoReport
    /\ SchedOff
    /\ raw = NoResults
    /\ formatted = PyNone
    /\ context = PyNone
    /\ searchLog = <<>>
    /\ queryLog = <<>>
    /\ genLog = <<>>
    /\ chat = EmptyChat
    /\ turns = 0
    /\ analyst_findings = PyNone
    /\ final_report = PyNone
    /\ err = "none"
    /\ fault = "none"
    /\ trace = <<>>
    /\ frames = [i \in Callers |-> Frame0]

\* call i takes a step that leaves its locals as f
Step(i, f) ==
    /\ frames' = [frames EXCEPT ![i] = f]
    /\ UNCHANGED seqVars

\* caller i invokes generate_report_with_autogen_multiagent(a.query, a.report_type, a.n_results)
ConcRequest(i, a) ==
    /\ frames[i].pc = "idle"
    /\ Step(i, [Frame0 EXCEPT !.pc = "open", !.query = a.query,
                              !.report_type = a.report_type, !.n_results = a.n_results])
    /\ UNCHANGED collection

\* initialize_chromadb: chromadb.PersistentClient
ConcOpen(i) ==
    /\ frames[i].pc = "open"
    /\ \/ Step(i, [frames[i] EXCEPT !.pc = "get"])
       \/ Step(i, [frames[i] EXCEPT !.pc = "raised", !.err = "IndexUnavailable"])
    /\ UNCHANGED collection

\* initialize_chromadb: client.get_collection; when it raises, the bare except
\* goes on to create_collection
ConcGetCollection(i) ==
    /\ frames[i].pc = "get"
    /\ Step(i, [frames[i] EXCEPT !.pc = IF collection.exists THEN "query" ELSE "create"])
    /\ UNCHANGED collection

\* initialize_chromadb: client.create_collection, which raises when another
\* call has created the collection meanwhile
ConcCreateCollection(i) ==
    /\ frames[i].pc = "create"
    /\ IF collection.exists
       THEN /\ Step(i, [frames[i] EXCEPT !.pc = "raised", !.err = "CollectionExists"])
            /\ UNCHANGED collection
       ELSE /\ Step(i, [frames[i] EXCEPT !.pc = "query"])
            /\ collection' = get_or_create(collection)

\* query_vectordb: collection.query(**query_params)
ConcQuery(i) ==
    /\ frames[i].pc = "query"
    /\ LET f == frames[i]
           params == query_params(f.query, f.n_results,
                                  filter_dict(filter_type_of(f.report_type)))
           g == [f EXCEPT !.queryLog = Append(@, params)]
       IN \/ Step(i, [g EXCEPT !.pc = "raised", !.err = "QueryError"])
          \/ \E r \in QueryResults(collection, params) :
                Step(i, [g EXCEPT !.pc = "normalize", !.raw = r])
    /\ UNCHANGED collection

\* formatted = format_retrieval_results(results)
ConcNormalize(i) ==
    /\ frames[i].pc = "normalize"
    /\ LET r == format_retrieval_results(frames[i].raw)
       IN IF r.kind = "error"
          THEN Step(i, [frames[i] EXCEPT !.pc = "raised", !.err = r.val[1]])
          ELSE Step(i, [frames[i] EXCEPT !.pc = "compose", !.formatted = r])
    /\ UNCHANGED collection

\* context = create_context_string(formatted); then the agents are created
ConcCompose(i) ==
    /\ frames[i].pc = "compose"
    /\ Step(i, [frames[i] EXCEPT !.pc = "analyst",
                                 !.context = create_context_string(frames[i].formatted),
                                 !.chat = EmptyChat])
    /\ UNCHANGED collection

\* user_proxy.initiate_chat(agent, message, max_turns=1) of call i: the message is sent
ConcSend(i, agent, message, at, next) ==
    /\ frames[i].pc = at
    /\ frames[i].chat[agent] = <<>>
    /\ Step(i, [frames[i] EXCEPT !.pc = next,
                                 !.chat[agent] = Append(@, Message("user_proxy", message))])
    /\ UNCHANGED collection

\* the generation service answers call i, or the call fails
ConcReply(i, agent, outputs, at, next) ==
    /\ frames[i].pc = at
    /\ \/ \E out \in outputs :
            Step(i, [frames[i] EXCEPT !.pc = next,
                                     !.chat[agent] = Append(@, Message(agent, out))])
       \/ \E e \in GenErrors :
            Step(i, [frames[i] EXCEPT !.pc = "raised", !.err = e])
    /\ UNCHANGED collection

conc_last_message_shared(i, agent) ==
    LET has == {j \in Callers : \E k \in 1..Len(frames[j].chat[agent]) :
                                     frames[j].chat[agent][k].name = agent}
        j == IF has = {} THEN i ELSE CHOOSE m \in has : \A h \in has : h <= m
    IN PyStr(frames[j].chat[agent][Len(frames[j].chat[agent])].content)

\* user_proxy.last_message(agent)["content"], of the proxy of call i
conc_last_message(i, agent) ==
    PyStr(frames[i].chat[agent][Len(frames[i].chat[agent])].content)

ConcAnalystSend(i) ==
    ConcSend(i, "data_analyst", analysis_prompt(frames[i].query, frames[i].context),
             "analyst", "analyst_wait")

ConcAnalystReply(i) ==
    ConcReply(i, "data_analyst", ConcAnalystOutputs, "analyst_wait", "analyst_done")

\* analyst_findings = user_proxy.last_message(analyst)["content"]
ConcAnalystDone(i) ==
    /\ frames[i].pc = "analyst_done"
    /\ Step(i, [frames[i] EXCEPT !.pc = "writer",
                                 !.analyst_findings = conc_last_message(i, "data_analyst")])
    /\ UNCHANGED collection

ConcWriterSend(i) ==
    ConcSend(i, "report_writer", report_prompt(frames[i].query, frames[i].analyst_findings),
             "writer", "writer_wait")

ConcWriterReply(i) ==
    ConcReply(i, "report_writer", WriterOutputs, "writer_wait", "writer_done")

\* final_report = user_proxy.last_message(writer)["content"]; return final_report
ConcWriterDone(i) ==
    /\ frames[i].pc = "writer_done"
    /\ Step(i, [frames[i] EXCEPT !.pc = "done",
                                 !.final_report = conc_last_message(i, "report_writer")])
    /\ UNCHANGED collection

NextConc ==
    \/ \E i \in Callers, a \in ConcArgs : ConcRequest(i, a)
    \/ \E i \in Callers : ConcOpen(i)
    \/ \E i \in Callers : ConcGetCollection(i)
    \/ \E i \in Callers : ConcCreateCollection(i)
    \/ \E i \in Callers : ConcQuery(i)
    \/ \E i \in Callers : ConcNormalize(i)
    \/ \E i \in Callers : ConcCompose(i)
    \/ \E i \in Callers : ConcAnalystSend(i)
    \/ \E i \in Callers : ConcAnalystReply(i)
    \/ \E i \in Callers : ConcAnalystDone(i)
    \/ \E i \in Callers : ConcWriterSend(i)
    \/ \E i \in Callers : ConcWriterReply(i)
    \/ \E i \in Callers : ConcWriterDone(i)

SpecConc == InitConc /\ [][NextConc]_vars

---------------------------------------------------------------------------
(* format_retrieval_results and create_context_string on every raw result *)

InitFmt ==
    /\ pc = "normalize"
    /\ query = ""
    /\ report_type = ""
    /\ n_results = 0
    /\ collection = NoCollection
    /\ requests = 1
    /\ call = NoCall
    /\ prompt_with_context = <<>>
    /\ storeFaults = <<>>
    /\ llm_cache = {}
    /\ repeated = FALSE
    /\ report_call = NoReport
    /\ SchedOff
    /\ frames = <<>>
    /\ \/ raw \in ZeroHitResults \cup MalformedResults \cup UnequalResults
       \/ \* a list of up to MaxHits hits, one of them of any metadata, in any order
          \E n \in 1..MaxHits : \E b \in [1..n -> BaseHits] :
             \E i \in 1..n : \E h \in SparseHits :
                raw = BatchOf([b EXCEPT ![i] = h])
    /\ formatted = PyNone
    /\ context = PyNone
    /\ searchLog = <<>>
    /\ queryLog = <<>>
    /\ genLog = <<>>
    /\ chat = EmptyChat
    /\ turns = 0
    /\ analyst_findings = PyNone
    /\ final_report = PyNone
    /\ err = "none"
    /\ fault = "none"
    /\ trace = <<>>

NextFmt == Normalize \/ Compose

SpecFmt == InitFmt /\ [][NextFmt]_vars

---------------------------------------------------------------------------
(* Properties of the request (specification Spec) *)

Normalized == formatted # PyNone
Composed == context # PyNone

WriterCalls == {i \in 1..Len(genLog) : genLog[i].agent = "report_writer"}
AnalystReplies == {i \in 1..Len(chat["data_analyst"]) : chat["data_analyst"][i].name = "data_analyst"}

\* C1: a run in which no call fails issues exactly two generation calls, the
\* analyst's and then the writer's, each chat holding one prompt and one reply;
\* no run issues more.
C1_TwoSingleTurnCalls ==
    /\ Len(genLog) <= 2
    /\ \A i \in 1..Len(genLog) :
          genLog[i].agent = (IF i = 1 THEN "data_analyst" ELSE "report_writer")
    /\ \A a \in DOMAIN chat : Len(chat[a]) <= 2
    /\ pc = "done" =>
          /\ Len(genLog) = 2
          /\ \A a \in DOMAIN chat :
                /\ Len(chat[a]) = 2
                /\ chat[a][1].name = "user_proxy"
                /\ chat[a][2].name = a

C1_Witness == pc = "done" /\ fault = "none" /\ Len(genLog) = 2

\* C2: the prompt of every writer call holds the analyst's whole reply as a
\* contiguous part, and the query.
C2_WriterPromptEmbedsFindings ==
    \A i \in WriterCalls :
        /\ AnalystReplies # {}
        /\ \A j \in AnalystReplies :
              IsSubSeq(chat["data_analyst"][j].content, genLog[i].prompt)
        /\ IsSubSeq(<<query>>, genLog[i].prompt)

C2_Witness ==
    /\ WriterCalls # {}
    /\ \E j \in AnalystReplies : Len(chat["data_analyst"][j].content) = 3

\* the analyst call failed: the generation service raised before any reply of the analyst
AnalystFailed == fault \in GenErrors /\ AnalystReplies = {}

\* C3: when the analyst call fails, no writer call is issued, and the function
\* is left by the very exception the call raised, with nothing outcomes.
C3_AnalystFailurePropagates ==
    AnalystFailed =>
        /\ WriterCalls = {}
        /\ pc = "raised"
        /\ err = fault
        /\ final_report = PyNone

C3_Witness == AnalystFailed /\ pc = "raised" /\ err = "Timeout" /\ Len(genLog) = 1

FullTrace ==
    <<"search", "normalize", "compose", "analyst_call", "analyst_reply",
      "writer_call", "writer_reply">>

\* C4: the steps of a request happen in the order search, normalization,
\* composition, analyst call, writer call, each at most once; the writer call
\* follows the analyst's reply; the search is made exactly once.
C4_FixedOrder ==
    /\ Len(trace) <= Len(FullTrace)
    /\ trace = SubSeq(FullTrace, 1, Len(trace))
    /\ Len(searchLog) <= 1
    /\ pc \notin {"idle", "retrieve"} => Len(searchLog) = 1
    /\ WriterCalls # {} => AnalystReplies # {}
    /\ pc = "done" => trace = FullTrace

C4_Witness == pc = "done" /\ trace = FullTrace /\ Len(searchLog) = 1

\* C10: a request of category sales makes exactly one search, with filter type
\* sales; marketing, with filter type marketing; combined, with no filter; the
\* query and the result count reach the store unchanged.
C10_RoutedSearch ==
    /\ Len(searchLog) <= 1 /\ Len(queryLog) <= 1
    /\ pc \notin {"idle", "retrieve"} => Len(searchLog) = 1
    /\ \A i \in 1..Len(searchLog) :
          /\ searchLog[i].query = query
          /\ searchLog[i].n_results = n_results
          /\ report_type = "sales" => searchLog[i].filter_type = "sales"
          /\ report_type = "marketing" => searchLog[i].filter_type = "marketing"
          /\ report_type = "combined" => searchLog[i].filter_type = "None"
    /\ \A i \in 1..Len(queryLog) :
          /\ queryLog[i].query_texts = <<query>>
          /\ queryLog[i].n_results = n_results
          /\ report_type = "sales" =>
                "where" \in DOMAIN queryLog[i] /\ queryLog[i].where = [type |-> "sales"]
          /\ report_type = "marketing" =>
                "where" \in DOMAIN queryLog[i] /\ queryLog[i].where = [type |-> "marketing"]
          /\ report_type = "combined" => "where" \notin DOMAIN queryLog[i]

C10_Witness ==
    /\ pc = "done"
    /\ report_type = "sales"
    /\ n_results = 5
    /\ queryLog = <<[query_texts |-> <<query>>, n_results |-> 5, where |-> [type |-> "sales"]]>>

\* the generation calls made to the analyst
AnalystCalls == {i \in 1..Len(genLog) : genLog[i].agent = "data_analyst"}

\* C13: a request whose search returns no hit goes on: its context is the text
\* "No relevant information found.", the analyst prompt holds that text, and
\* the run that no generation failure stops makes both calls and returns the
\* writer's reply.
C13_EmptyRetrievalProceeds ==
    (IsZeroHit(raw) /\ Composed) =>
        /\ context = Sentinel
        /\ \A i \in AnalystCalls : IsSubSeq(Sentinel.val, genLog[i].prompt)
        /\ pc = "raised" => fault \in GenErrors
        /\ pc = "done" =>
              /\ AnalystCalls # {} /\ WriterCalls # {}
              /\ final_report = last_message("report_writer")

\* C11: a request made by calling an entry point with the query alone, whichever
\* entry point it is, searches with no filter (category combined) and with
\* result count 8.
C11_QueryOnlyDefaults ==
    (call.query_only /\ searchLog # <<>>) =>
        /\ report_type = "combined"
        /\ searchLog[1].filter_type = "None"
        /\ searchLog[1].n_results = 8

\* C14: when the store cannot be opened, the collection cannot be loaded or the
\* query cannot be executed, the request is left by that very exception, and no
\* generation call is issued.
C14_StoreFailurePropagates ==
    storeFaults # <<>> =>
        /\ pc = "raised"
        /\ err = storeFaults[1]
        /\ genLog = <<>>

\* C15: no step of any request changes the store: the collections and their
\* documents stay what they were at the start, also when there was no
\* collection.
C15_SearchReadOnly == [][collection' = collection]_vars

\* C16: the value a report request returns is the text of the writer's reply as
\* the generation service gave it; it is not the analyst's output and not a
\* prompt, and nothing is outcomes before the writer has replied.
C16_ReturnsWriterReply ==
    /\ pc # "done" => final_report = PyNone
    /\ pc = "done" =>
          LET w == chat["report_writer"] IN
          /\ w # <<>>
          /\ w[Len(w)].name = "report_writer"
          /\ final_report = PyStr(w[Len(w)].content)
          /\ final_report.val \in WriterOutputs
          /\ final_report # analyst_findings
          /\ \A i \in 1..Len(genLog) : final_report.val # genLog[i].prompt

C16_Witness ==
    /\ pc = "done"
    /\ final_report = PyStr(<<"# Report", "\n", "1. Executive Summary">>)
    /\ analyst_findings = PyStr(<<"Revenue grew 12%.">>)

\* C17: whenever a writer call is issued, the analyst call has completed with
\* a reply, and the text of that reply is not empty.
C17_WriterNeedsFindings ==
    WriterCalls # {} =>
        /\ AnalystReplies # {}
        /\ analyst_findings.kind = "str"
        /\ analyst_findings.val # <<>>

\* the replies agent a has given in its chat
RepliesOf(a) == {i \in 1..Len(chat[a]) : chat[a][i].name = a}

\* C18: in every run, also one in which a call fails or times out, each stage's
\* generation call is issued at most once; a failed call ends the request with
\* its exception and without a reply, and is not issued again.
C18_NoReissue ==
    /\ Cardinality(AnalystCalls) <= 1
    /\ Cardinality(WriterCalls) <= 1
    /\ fault \in GenErrors =>
          /\ pc = "raised"
          /\ err = fault
          /\ genLog # <<>>
          /\ RepliesOf(genLog[Len(genLog)].agent) = {}

C18_Witness ==
    /\ fault = "Timeout"
    /\ pc = "raised"
    /\ Cardinality(AnalystCalls) = 1 /\ Cardinality(WriterCalls) = 1
    /\ RepliesOf("data_analyst") # {} /\ RepliesOf("report_writer") = {}

\* C20: every request of a sequence, also one that repeats the arguments of the
\* request before it, makes its own search and issues its own analyst and
\* writer calls to the generation service; what it returns is the reply to its
\* own writer call, and the client stores no response.
C20_NoReuseAcrossRequests ==
    /\ llm_cache = {}
    /\ (requests > 0 /\ pc \notin {"idle", "retrieve"}) => Len(searchLog) = 1
    /\ pc \in {"analyst_wait", "writer", "writer_wait", "done"} => Cardinality(AnalystCalls) = 1
    /\ pc \in {"writer_wait", "done"} => Cardinality(WriterCalls) = 1
    /\ pc = "done" =>
          /\ trace = FullTrace
          /\ final_report = PyStr(chat["report_writer"][Len(chat["report_writer"])].content)

C20_Witness ==
    /\ repeated
    /\ requests = 2
    /\ pc = "done"
    /\ Len(searchLog) = 1
    /\ Cardinality(AnalystCalls) = 1 /\ Cardinality(WriterCalls) = 1

---------------------------------------------------------------------------
(* Properties of generate_custom_report (specification SpecCustom) *)

\* C12: a call of generate_custom_report issues one generation call, to the
\* analyst, with the prompt it was given unchanged; it makes no search and no
\* writer call, and returns the analyst's reply.
C12_CustomReportOneAnalystCall ==
    call.entry = "generate_custom_report" =>
        /\ searchLog = <<>> /\ queryLog = <<>>
        /\ chat["report_writer"] = <<>>
        /\ Len(genLog) <= 1
        /\ \A i \in 1..Len(genLog) :
              genLog[i] = [agent |-> "data_analyst", prompt |-> prompt_with_context]
        /\ pc = "done" =>
              /\ Len(genLog) = 1
              /\ Len(chat["data_analyst"]) = 2
              /\ chat["data_analyst"][2].name = "data_analyst"
              /\ final_report = PyStr(chat["data_analyst"][2].content)

C12_Witness ==
    /\ call.entry = "generate_custom_report"
    /\ pc = "done"
    /\ Len(prompt_with_context) = 3
    /\ final_report = PyStr(<<"Top product: Widget A.", "\n", "Concern: churn.">>)
    /\ genLog = <<[agent |-> "data_analyst", prompt |-> prompt_with_context]>>

---------------------------------------------------------------------------
(* Properties of concurrent requests (specification SpecConc) *)

\* C19: when requests run concurrently, however their steps interleave, each
\* searches with its own query, its analyst prompt is built from its own query
\* and its own context and holds no other request's query, its writer prompt
\* is built from the reply to its own analyst call, and it returns the reply
\* to its own writer call.
C19_RequestsIsolated ==
    \A i \in DOMAIN frames :
        LET f == frames[i]
            ap == f.chat["data_analyst"]
            wp == f.chat["report_writer"]
        IN
        /\ \A k \in 1..Len(f.queryLog) :
              f.queryLog[k] = query_params(f.query, f.n_results,
                                           filter_dict(filter_type_of(f.report_type)))
        /\ f.context # PyNone =>
              f.context = create_context_string(format_retrieval_results(f.raw))
        /\ ap # <<>> =>
              /\ ap[1].content = analysis_prompt(f.query, f.context)
              /\ \A j \in DOMAIN frames :
                    frames[j].query \notin {"", f.query}
                        => ~IsSubSeq(<<frames[j].query>>, ap[1].content)
        /\ f.analyst_findings # PyNone =>
              Len(ap) = 2 /\ f.analyst_findings = PyStr(ap[2].content)
        /\ wp # <<>> =>
              /\ Len(ap) = 2
              /\ wp[1].content = report_prompt(f.query, PyStr(ap[2].content))
        /\ f.pc = "done" =>
              Len(wp) = 2 /\ wp[2].name = "report_writer"
              /\ f.final_report = PyStr(wp[2].content)

C19_Witness ==
    /\ frames[1].pc = "done" /\ frames[2].pc = "done"
    /\ frames[1].query # frames[2].query
    /\ frames[1].analyst_findings # frames[2].analyst_findings
    /\ frames[1].final_report # frames[2].final_report
    /\ frames[1].context # frames[2].context

---------------------------------------------------------------------------
(* Properties of normalization and composition *)

\* C5: a raw result that holds no hit is normalized and composed to exactly the
\* text "No relevant information found.", without header.
C5_ZeroHitsGiveSentinel ==
    (IsZeroHit(raw) /\ Composed) => context = Sentinel

\* a raw result with at least one hit, the three lists of equal length
HasHits(r) == IsBatch(r) /\ Len(r.documents.val[1]) > 0

\* C6: a raw result of n > 0 hits is normalized to n items; item i is built from
\* hit i and has rank i, in the order of the input whatever the distances.
C6_OneItemPerHitInOrder ==
    (HasHits(raw) /\ Normalized) =>
        /\ formatted.kind = "list"
        /\ Len(formatted.val) = Len(HitsOf(raw))
        /\ \A i \in 1..Len(formatted.val) :
              /\ formatted.val[i].rank = i
              /\ formatted.val[i].content = HitsOf(raw)[i].doc
              /\ formatted.val[i].metadata = HitsOf(raw)[i].meta
              /\ i > 1 => formatted.val[i].rank > formatted.val[i - 1].rank

C6_Witness ==
    /\ HasHits(raw) /\ Normalized
    /\ Len(formatted.val) = 2
    /\ HitsOf(raw)[1].dist > HitsOf(raw)[2].dist
    /\ formatted.val[1].content # formatted.val[2].content

\* C7: the relevance score of every item is 1 minus the distance of its hit,
\* below zero when the distance is above 1.
C7_ScoreIsOneMinusDistance ==
    (HasHits(raw) /\ Normalized) =>
        \A i \in 1..Len(formatted.val) :
            /\ formatted.val[i].relevance_score + HitsOf(raw)[i].dist = One
            /\ HitsOf(raw)[i].dist > One => formatted.val[i].relevance_score < 0

C7_Witness ==
    /\ HasHits(raw) /\ Normalized
    /\ \E i \in 1..Len(formatted.val) :
          HitsOf(raw)[i].dist = 150 /\ formatted.val[i].relevance_score = 0 - 50

\* C8: composing the sentinel gives the sentinel, and composing that again
\* gives it again.
C8_SentinelPassesThrough ==
    (formatted = Sentinel /\ Composed) =>
        /\ context = Sentinel
        /\ create_context_string(context) = Sentinel
        /\ create_context_string(create_context_string(context)) = create_context_string(context)

C8_Witness == formatted = Sentinel /\ context = Sentinel

\* the metadata line of a sales or marketing item, None standing for an absent field
ExpectedField(meta, key) == IF key \in DOMAIN meta THEN meta[key] ELSE "None"
ExpectedMetaLine(item) ==
    IF item.type = "sales"
    THEN <<"   Product: ", ExpectedField(item.metadata, "product"),
           ", Revenue: $", ExpectedField(item.metadata, "revenue"),
           ", Region: ", ExpectedField(item.metadata, "region"),
           ", Quarter: ", ExpectedField(item.metadata, "quarter")>>
    ELSE <<"   Campaign: ", ExpectedField(item.metadata, "campaign_name"),
           ", Channel: ", ExpectedField(item.metadata, "channel"),
           ", Budget: $", ExpectedField(item.metadata, "budget"),
           ", Conversions: ", ExpectedField(item.metadata, "conversions")>>

\* C9: composition of a list ends with a text whatever fields the metadata of
\* its sales and marketing items lack; an absent field shows as None in its
\* place, and every item of the list has its rank line and content line.
C9_AbsentFieldsRenderNone ==
    (formatted.kind = "list" /\ Composed) =>
        /\ context.kind = "str"
        /\ \A i \in 1..Len(formatted.val) :
              LET item == formatted.val[i] IN
              /\ IsSubSeq(<<"\n", ToString(i), ". [", Upper(item.type)>>, context.val)
              /\ IsSubSeq(<<"\n", "   ", item.content>>, context.val)
              /\ item.type \in {"sales", "marketing"} =>
                    IsSubSeq(<<"\n">> \o ExpectedMetaLine(item), context.val)

C9_Witness ==
    /\ formatted.kind = "list" /\ Composed
    /\ Len(formatted.val) = 2
    /\ formatted.val[1].type = "sales"
    /\ DOMAIN formatted.val[1].metadata = {"type", "revenue"}
    /\ IsSubSeq(<<"   Product: ", "None", ", Revenue: $", "500000", ", Region: ", "None">>,
                context.val)
    /\ IsSubSeq(<<"\n", "2", ". [">>, context.val)

\* r is a results dict from which one of the three lists is missing
LacksList(r) ==
    /\ r.kind = "dict"
    /\ \E k \in {"documents", "metadatas", "distances"} : r[k].kind = "absent"

\* C21: a raw result that lacks the documents, the metadatas or the distances
\* list is normalized to the text "No relevant information found.", and
\* normalization does not fail.
C21_MissingListGivesSentinel ==
    (LacksList(raw) /\ trace # <<>>) =>
        /\ pc # "raised"
        /\ formatted = Sentinel

\* the three lists of r, each in a batch of one
Lists(r) == [k \in {"documents", "metadatas", "distances"} |-> r[k].val[1]]

\* r holds the three lists, in batches of one, and their lengths differ
IsUnequal(r) ==
    /\ r.kind = "dict"
    /\ \A k \in {"documents", "metadatas", "distances"} : r[k].kind = "list" /\ Len(r[k].val) = 1
    /\ \E j, k \in {"documents", "metadatas", "distances"} : Len(Lists(r)[j]) # Len(Lists(r)[k])

\* C28: a raw result whose three lists differ in length is normalized without
\* failure to as many items as the shortest list has entries; item i has rank
\* i and is built from entry i of each list, and the surplus entries appear
\* in no item.
C28_UnequalListsTruncate ==
    (IsUnequal(raw) /\ trace # <<>>) =>
        LET l == Lists(raw)
            n == Min3(Len(l.documents), Len(l.metadatas), Len(l.distances))
        IN /\ pc # "raised"
           /\ formatted.kind = "list"
           /\ Len(formatted.val) = n
           /\ \A i \in 1..n :
                 /\ formatted.val[i].rank = i
                 /\ formatted.val[i].content = l.documents[i]
                 /\ formatted.val[i].metadata = l.metadatas[i]
                 /\ formatted.val[i].relevance_score + l.distances[i] = One

C28_Witness ==
    /\ IsUnequal(raw) /\ Composed
    /\ Len(Lists(raw).documents) = 2 /\ Len(Lists(raw).metadatas) = 1
    /\ Len(Lists(raw).distances) = 2
    /\ Len(formatted.val) = 1
    /\ formatted.val[1].rank = 1

\* the lines of a text, a line break being the token "\n"
RECURSIVE SplitLines(_)
SplitLines(t) ==
    IF t = <<>> THEN << <<>> >>
    ELSE LET rest == SplitLines(Tail(t))
         IN IF Head(t) = "\n" THEN << <<>> >> \o rest
            ELSE << <<Head(t)>> \o Head(rest) >> \o Tail(rest)

\* the lines of a text that are not empty
TextLines(t) == SelectSeq(SplitLines(t), LAMBDA l : l # <<>>)

\* the type of a hit, and its score as text for the distances 0.09, 1.00 and 1.50
TypeOfHit(h) == IF "type" \in DOMAIN h.meta THEN h.meta["type"] ELSE "unknown"
UpperOfType(t) ==
    CASE t = "sales" -> "SALES" [] t = "marketing" -> "MARKETING"
      [] t = "other" -> "OTHER" [] t = "unknown" -> "UNKNOWN"
ScoreText(dist) == CASE dist = 9 -> "0.91" [] dist = 100 -> "0.00" [] dist = 150 -> "-0.50"

\* the lines the claim gives hit h at rank i
RECURSIVE ExpectedLines(_, _)
ExpectedLines(hs, i) ==
    IF i > Len(hs) THEN <<>>
    ELSE LET h == hs[i]
             t == TypeOfHit(h)
         IN << <<ToString(i), ". [", UpperOfType(t), "] (Relevance: ", ScoreText(h.dist), ")">>,
               <<"   ", h.doc>> >>
            \o (IF t \in {"sales", "marketing"}
                THEN <<ExpectedMetaLine([type |-> t, metadata |-> h.meta])>> ELSE <<>>)
            \o ExpectedLines(hs, i + 1)

\* C22: the context of a list of items is, line by line, the header, then for
\* every item in rank order its line "{rank}. [{TYPE}] (Relevance: {score})"
\* with the score to two decimals, its content line, and one metadata line
\* when its type is sales or marketing, none when the metadata has no type.
C22_ContextLayout ==
    (HasHits(raw) /\ Composed) =>
        /\ context.kind = "str"
        /\ TextLines(context.val) =
              << <<"Retrieved relevant information:">> >> \o ExpectedLines(HitsOf(raw), 1)

C22_Witness ==
    /\ HasHits(raw) /\ Composed
    /\ Len(HitsOf(raw)) = 2
    /\ "type" \notin DOMAIN HitsOf(raw)[2].meta
    /\ TextLines(context.val)[2] = <<"1", ". [", "SALES", "] (Relevance: ", "0.91", ")">>
    /\ TextLines(context.val)[4] =
          <<"   Product: ", "Widget A", ", Revenue: $", "500000", ", Region: ", "NA",
            ", Quarter: ", "Q3">>
    /\ TextLines(context.val)[5] = <<"2", ". [", "UNKNOWN", "] (Relevance: ", "-0.50", ")">>
    /\ Len(TextLines(context.val)) = 6

---------------------------------------------------------------------------
(* Further properties of the request (specification Spec) *)

\* the contents of the messages of the conversation with agent a
ContentsOf(a) == {chat[a][i].content : i \in 1..Len(chat[a])}

\* C23: the conversation with the writer holds its prompt and its reply and no
\* message of the conversation with the analyst; the prompt is built from the
\* query and the text of the analyst's reply; and each conversation of a
\* request starts empty, whatever the requests before it left.
C23_StagesShareNoState ==
    LET a == chat["data_analyst"]
        w == chat["report_writer"]
    IN /\ Len(w) <= 2
       /\ \A i \in 1..Len(w) :
             /\ w[i].name = (IF i = 1 THEN "user_proxy" ELSE "report_writer")
             /\ i = 1 => w[i].content = report_prompt(query, PyStr(a[Len(a)].content))
       /\ ContentsOf("report_writer") \cap ContentsOf("data_analyst") = {}
       /\ pc \in {"retrieve", "normalize", "compose"} => chat = EmptyChat
       /\ (pc = "analyst" /\ turns = 0) => chat = EmptyChat
       /\ pc = "analyst_wait" =>
             a = <<Message("user_proxy", analysis_prompt(query, context))>> /\ w = <<>>
       /\ (pc = "writer" /\ turns = 0) => w = <<>>

C23_Witness ==
    /\ requests = 2
    /\ pc = "done"
    /\ Len(chat["report_writer"]) = 2
    /\ Len(chat["data_analyst"]) = 2
    /\ chat["data_analyst"][2].content = <<"Revenue grew 12%.">>

\* C24: a request whose category is neither sales nor marketing is not
\* rejected: it makes one search, with no type filter and with the query and
\* result count it was given, the search a request of category combined makes.
C24_UnknownCategoryIsCombined ==
    (report_type \notin {"sales", "marketing"} /\ pc \notin {"idle", "retrieve"}) =>
        /\ searchLog = <<[query |-> query, n_results |-> n_results, filter_type |-> "None"]>>
        /\ Len(queryLog) <= 1
        /\ \A i \in 1..Len(queryLog) :
              /\ "where" \notin DOMAIN queryLog[i]
              /\ queryLog[i] = query_params(query, n_results,
                                            filter_dict(filter_type_of("combined")))
        /\ pc = "raised" => (fault # "none" /\ err = fault)

C24_Witness ==
    /\ report_type = "other"
    /\ pc = "done"
    /\ queryLog = <<[query_texts |-> <<query>>, n_results |-> 8]>>
    /\ Len(HitsOf(raw)) = 2

---------------------------------------------------------------------------
(* Properties of the named report functions (specification SpecReports) *)

\* the category and result count the claim gives each named report function
ClaimedKind(f) ==
    CASE f = "generate_sales_performance_report" -> <<"sales", 8>>
      [] f = "generate_marketing_campaign_report" -> <<"marketing", 8>>
      [] f = "generate_quarterly_summary_report" -> <<"combined", 10>>
      [] f = "generate_product_analysis_report" -> <<"combined", 8>>
      [] f = "generate_regional_analysis_report" -> <<"combined", 8>>
      [] f = "generate_custom_analysis_report" -> <<"combined", 8>>

\* the queries of the sales and marketing reports, over their optional arguments
ClaimedQueries(f) ==
    CASE f = "generate_sales_performance_report" ->
            {"Analyze sales performance",
             "Analyze sales performance in North America",
             "Analyze sales performance for Q1 2024",
             "Analyze sales performance in North America for Q1 2024"}
      [] f = "generate_marketing_campaign_report" ->
            {"Analyze marketing campaign performance",
             "Analyze marketing campaign performance for Email channel",
             "Analyze marketing campaign performance in Q1 2024",
             "Analyze marketing campaign performance for Email channel in Q1 2024"}
      [] OTHER -> {query}

\* C29: the request a named report function makes is one call of the
\* dispatcher with the category and result count fixed for that function,
\* whatever its arguments: the arguments show in the query text alone, and the
\* search has the type filter of the fixed category.
C29_NamedReportsFixedKind ==
    report_call.function \in ReportFunctions =>
        /\ call.entry = "generate_report_with_rag"
        /\ <<report_type, n_results>> = ClaimedKind(report_call.function)
        /\ query \in ClaimedQueries(report_call.function)
        /\ Len(searchLog) <= 1
        /\ pc # "retrieve" => Len(searchLog) = 1
        /\ \A i \in 1..Len(searchLog) :
              /\ searchLog[i].n_results = ClaimedKind(report_call.function)[2]
              /\ searchLog[i].filter_type =
                    (IF report_type = "combined" THEN "None" ELSE report_type)
              /\ searchLog[i].query = query

C29_Witness ==
    /\ report_call = [function |-> "generate_sales_performance_report",
                      args |-> <<PyStr(<<"North America">>), PyStr(<<"Q1 2024">>)>>]
    /\ query = "Analyze sales performance in North America for Q1 2024"
    /\ pc = "done"
    /\ queryLog = <<[query_texts |-> <<query>>, n_results |-> 8, where |-> [type |-> "sales"]]>>

---------------------------------------------------------------------------
(* Properties of the daily batch and the scheduling loop (specification SpecSched) *)

\* the steps of a run of the batch that nothing stops
BatchOrder ==
    <<"generate_sales", "save_sales", "generate_marketing", "save_marketing",
      "generate_summary", "save_summary", "charts", "email", "telegram">>

\* generating or saving one of the three reports
ReportSteps == {BatchOrder[i] : i \in 1..6}

\* the batch is not running: its last run has handed its value back
BatchOver == sched_pc \in {"sleep", "poll", "exited"} /\ outcomes # <<>>

LastOutcome == outcomes[Len(outcomes)]

\* the report files of a run that saved all three reports
ThreeFiles == [i \in 1..Len(BatchReports) |-> BatchFile(BatchReports[i], timestamp)]

\* C25: the batch generates and saves the reports in the order sales, marketing,
\* executive summary; when generating or saving one of them raises, that step is
\* the last of the run (no later report, no charts, no email, no Telegram), the
\* exception stays inside the batch, and the batch returns False
C25_BatchStopsAtFirstFailure ==
    /\ steps = SubSeq(BatchOrder, 1, Len(steps))
    /\ report_files = SubSeq(ThreeFiles, 1, Len(report_files))
    /\ raised_at \in ReportSteps =>
          /\ steps[Len(steps)] = raised_at
          /\ chart_files = <<>>
          /\ deliveries = <<>>
          /\ sched_pc \in {"except", "sleep", "poll", "exited", "stopped"}
          /\ BatchOver => LastOutcome = "False"

C25_Witness ==
    /\ raised_at = "save_marketing"
    /\ steps = SubSeq(BatchOrder, 1, 4)
    /\ report_files = <<BatchFile("sales", timestamp)>>
    /\ BatchOver
    /\ LastOutcome = "False"

\* C26: a run that produced the three reports and the charts returns True, whether
\* the email was sent or not and whether the Telegram delivery raised or not; the
\* Telegram delivery follows the email delivery whatever the email's result, and
\* both are given the same three report files and the same chart files
C26_DeliveryFailuresKeepTrue ==
    /\ \A i \in DOMAIN deliveries :
          /\ deliveries[i].report_files = ThreeFiles
          /\ deliveries[i].chart_files = AllCharts
    /\ [i \in DOMAIN deliveries |-> deliveries[i].channel]
          = SubSeq(<<"email", "telegram">>, 1, Len(deliveries))
    /\ (success # PyNone /\ sched_pc \notin {"telegram", "stopped"}) => Len(deliveries) = 2
    /\ (chart_files = AllCharts /\ BatchOver) => LastOutcome = "True"

C26_Witness ==
    /\ BatchOver
    /\ LastOutcome = "True"
    /\ success = PyBool(FALSE)
    /\ raised_at = "telegram"
    /\ Len(deliveries) = 2

\* a run of the job that began on day d ended in an error, and the loop has control
FailedRun(d) ==
    /\ LoopRunning
    /\ BatchOver
    /\ LastOutcome = "False"
    /\ timestamp = d

\* C27: once the job is registered, a run that ends in an error hands False back to
\* the loop, which goes on polling with the job due the next day; the loop is left
\* by the user's interrupt only; and unless the user interrupts, the job is run
\* again on the next scheduled day
C27_FailedRunKeepsScheduler ==
    /\ [](raised_at \in ReportSteps \cup {"charts"} /\ next_run > 0
            => /\ sched_pc \in {"except", "sleep", "poll", "stopped"}
               /\ sched_pc \in {"sleep", "poll"} => FailedRun(timestamp) /\ next_run = timestamp + 1)
    /\ [][(LoopRunning /\ ~LoopRunning') => Interrupt]_vars
    /\ \A d \in 1..(MaxDays - 1) :
          FailedRun(d) ~> (sched_pc = "stopped" \/ (timestamp = d + 1 /\ sched_pc = "sales"))

C27_Witness ==
    /\ outcomes = <<"False">>
    /\ next_run = 2
    /\ timestamp = 2
    /\ sched_pc = "wait_sales"

====
